---- MODULE Spec2Model ----
(***************************************************************************)
(* Model of `rosa list instance-types` (cmd/list/instancetypes/cmd.go):    *)
(* the run handler as a sequence of blocking steps, one per remote call,   *)
(* prompt or output step, and the pure formatter ByteCountIEC.             *)
(***************************************************************************)
EXTENDS Integers, Sequences, FiniteSets, TLC

VARIABLES
    pc,                      \* position of run: the step that executes next
    exitCode,                \* process exit status; NotExited while running
    trace,                   \* remote calls, prompts, reports and output steps, in order
    stdout,                  \* what reached standard output
    interactiveEnabled,      \* interactive.Enabled()
    outputFlag,              \* output.HasFlag()
    flagRegion,              \* arguments.GetRegion(): the --region flag
    defaultRegion,           \* the provider default region of the user's configuration
    azChanged,               \* cmd.Flags().Changed("availability-zones")
    argsAvailabilityZones,   \* args.availabilityZones
    awsClientRegion,         \* the region awsClient was built for
    region,                  \* local region
    regionList,              \* local regionList
    availabilityZones,       \* local availabilityZones
    isAvailabilityZonesSet,  \* local isAvailabilityZonesSet
    selectAvailabilityZones, \* local selectAvailabilityZones
    optionsAvailabilityZones,\* local optionsAvailabilityZones
    regionAvailabilityZones, \* local regionAvailabilityZones
    fetchArgs,               \* arguments of the GetAvailableMachineTypesInRegion call
    azError,                 \* zone and region named by the validation error
    machineTypes,            \* machineTypes.Items
    fb,                      \* ByteCountIEC: argument b
    fu,                      \* ByteCountIEC: argument uValue
    fres,                    \* ByteCountIEC: outcome of the call
    fpc                      \* ByteCountIEC: "call" before, "returned" after

runVars == <<pc, exitCode, trace, stdout, interactiveEnabled, outputFlag, flagRegion,
             defaultRegion, azChanged, argsAvailabilityZones, awsClientRegion, region,
             regionList, availabilityZones, isAvailabilityZonesSet,
             selectAvailabilityZones, optionsAvailabilityZones,
             regionAvailabilityZones, fetchArgs, azError, machineTypes>>

fmtVars == <<fb, fu, fres, fpc>>

vars == <<runVars, fmtVars>>

----------------------------------------------------------------------------
(* Bounds of the model. *)

\* longest --availability-zones list drawn
MaxZones == 2

\* most machine types a listing returns
MaxItems == 2

----------------------------------------------------------------------------
(* The world outside the command. *)

Regions == {"us-east-1", "us-west-2"}

\* the zones the provider reports for a region
ZonesOf(r) ==
    CASE r = "us-east-1" -> <<"us-east-1a", "us-east-1b", "us-east-1c">>
      [] r = "us-west-2" -> <<"us-west-2a">>
      [] OTHER -> <<>>

\* the zones an --availability-zones list is drawn from
FlagZones == {"us-east-1a", "us-west-2a"}

\* the provider default regions drawn
DefaultRegions == {"", "us-west-2"}

NotExited == -1

Range(s) == {s[i] : i \in 1..Len(s)}

SeqsUpTo(S, n) == UNION {[1..k -> S] : k \in 0..n}

\* an element of trace: the operation, the source line that issues it, whether it failed
Event(op, line, err) == [op |-> op, line |-> line, err |-> err]

----------------------------------------------------------------------------
(* Go's int and int64 values of ByteCountIEC. A value is kept exactly, as  *)
(* its digits in base 2^10, most significant first, without leading zeros  *)
(* (zero is the empty sequence), so that every value below 2^63 fits.      *)

\* one digit of a kept value ranges over 0..(Limb - 1)
Limb == 2 ^ 10

\* value bits of Go's int on the 64-bit build the command ships as
IntBits == 63

RECURSIVE Norm(_)
Norm(s) == IF s # <<>> /\ Head(s) = 0 THEN Norm(Tail(s)) ELSE s

RECURSIVE ToLimbs(_)
ToLimbs(n) == IF n = 0 THEN <<>> ELSE Append(ToLimbs(n \div Limb), n % Limb)

NumLt(a, b) ==
    \/ Len(a) < Len(b)
    \/ /\ Len(a) = Len(b)
       /\ \E i \in 1..Len(a) : a[i] < b[i] /\ \A j \in 1..(i - 1) : a[j] = b[j]

NumLe(a, b) == ~NumLt(b, a)

\* a \div d and a % d for a small divisor d > 0
RECURSIVE DivModFrom(_, _, _, _, _)
DivModFrom(a, d, i, r, q) ==
    IF i > Len(a) THEN [q |-> Norm(q), r |-> r]
    ELSE LET cur == r * Limb + a[i]
         IN  DivModFrom(a, d, i + 1, cur % d, Append(q, cur \div d))

NumDivMod(a, d) == DivModFrom(a, d, 1, 0, <<>>)

\* a * m + c for small m and c
RECURSIVE MulAddFrom(_, _, _, _, _)
MulAddFrom(a, m, i, carry, acc) ==
    IF i = 0 THEN Norm(ToLimbs(carry) \o acc)
    ELSE LET cur == a[i] * m + carry
         IN  MulAddFrom(a, m, i - 1, cur \div Limb, <<cur % Limb>> \o acc)

NumMul(a, m) == MulAddFrom(a, m, Len(a), 0, <<>>)

NumAdd(a, c) == MulAddFrom(a, 1, Len(a), c, <<>>)

\* the largest q in lo..hi with d * q <= n
RECURSIVE QuotBetween(_, _, _, _)
QuotBetween(n, d, lo, hi) ==
    IF lo = hi THEN lo
    ELSE LET mid == (lo + hi + 1) \div 2
         IN  IF NumLe(NumMul(d, mid), n) THEN QuotBetween(n, d, mid, hi)
             ELSE QuotBetween(n, d, lo, mid - 1)

RECURSIVE BitLen(_)
BitLen(n) == IF n = 0 THEN 0 ELSE 1 + BitLen(n \div 2)

NumBits(a) ==
    IF a = <<>> THEN 0 ELSE BitLen(Limb - 1) * (Len(a) - 1) + BitLen(Head(a))

\* significand bits of a float64
Float64Mantissa == 53

\* float64(b): b rounded to 53 significant bits, ties to even
Float64Of(b) ==
    LET s == NumBits(b) - Float64Mantissa
    IN  IF s <= 0 THEN b
        ELSE LET dm   == NumDivMod(b, 2 ^ s)
                 half == 2 ^ (s - 1)
                 odd  == NumDivMod(dm.q, 2).r = 1
                 up   == IF dm.r > half \/ (dm.r = half /\ odd) THEN 1 ELSE 0
             IN  NumMul(NumAdd(dm.q, up), 2 ^ s)

DigitChar(d) == <<"0", "1", "2", "3", "4", "5", "6", "7", "8", "9">>[d + 1]

RECURSIVE DecimalDigits(_)
DecimalDigits(a) ==
    IF a = <<>> THEN ""
    ELSE LET dm == NumDivMod(a, 10) IN DecimalDigits(dm.q) \o DigitChar(dm.r)

\* fmt's %d of a value >= 0
FormatD(a) == IF a = <<>> THEN "0" ELSE DecimalDigits(a)

\* fmt's %.1f of float64(b)/float64(div): the quotient of the two floats is exact
\* (div is a power of two), and is printed rounded to one decimal, ties to even
FormatF1(b, div) ==
    LET n      == NumMul(Float64Of(b), 20)
        twice  == QuotBetween(n, div, 0, 32 * Limb)
        exact  == NumMul(div, twice) = n
        down   == twice \div 2
        tenths == IF twice % 2 = 1 /\ (~exact \/ down % 2 = 1) THEN down + 1 ELSE down
    IN  FormatD(ToLimbs(tenths \div 10)) \o "." \o DigitChar(tenths % 10)

----------------------------------------------------------------------------
(* ByteCountIEC *)

\* lines 249-252: var unit int; if uValue == "B" { unit = 1024 }
UnitOf(uValue) == IF uValue = "B" THEN 1024 ELSE 0

\* the loop condition written n > unit
LoopContinuesStrict(n, unit) == NumLt(ToLimbs(unit), n)

\* line 257, the loop condition n >= unit
LoopContinues(n, unit) == NumLe(ToLimbs(unit), n)

\* lines 257-260: for ...; n >= unit; n /= unit { div *= int64(unit); exp++ }
RECURSIVE ByteCountLoop(_, _, _, _)
ByteCountLoop(n, unit, div, exp) ==
    IF LoopContinues(n, unit)
    THEN ByteCountLoop(NumDivMod(n, unit).q, unit, NumMul(div, unit), exp + 1)
    ELSE [div |-> div, exp |-> exp]

\* the string "KMGTPE" of line 262
Prefixes == <<"K", "M", "G", "T", "P", "E">>

Returned(text, div, exp) == [panic |-> "", text |-> text, div |-> div, exp |-> exp]

Panicked(why, div, exp) == [panic |-> why, text |-> "", div |-> div, exp |-> exp]

\* ByteCountIEC(b, uValue) for b >= 0: the string returned, or the run-time panic
\* raised, with the values of div and exp the call ended with
ByteCountIEC(b, uValue) ==
    LET unit == UnitOf(uValue)
    IN  IF NumLt(b, ToLimbs(unit))
        THEN Returned(FormatD(b) \o " B", <<>>, 0)
        ELSE IF unit = 0
        THEN Panicked("integer divide by zero", <<>>, 0)
        ELSE LET l == ByteCountLoop(NumDivMod(b, unit).q, unit, ToLimbs(unit), 0)
             IN  IF l.exp >= Len(Prefixes)
                 THEN Panicked("index out of range", l.div, l.exp)
                 ELSE Returned(FormatF1(b, l.div) \o " " \o Prefixes[l.exp + 1] \o "iB",
                               l.div, l.exp)

----------------------------------------------------------------------------
(* run: the inputs of one invocation *)

\* what the listing service can return: a machine type with its Available mark
\* and its memory (16 GiB is 16 * 1024^3 bytes)
Catalog ==
    { [id |-> "m5.xlarge",  available |-> TRUE,  memory |-> <<16, 0, 0, 0>>, unit |-> "B"],
      [id |-> "p4d.24xl",   available |-> FALSE, memory |-> <<1, 128, 0, 0, 0>>, unit |-> "B"],
      [id |-> "t3.nano",    available |-> TRUE,  memory |-> <<512>>, unit |-> "MiB"] }

\* aws.GetRegion(arguments.GetRegion()): the flag when given, else the default
UserRegion == IF flagRegion # "" THEN flagRegion ELSE defaultRegion

\* the answers a multiple-choice prompt can give: the chosen options, in their order
RECURSIVE Pick(_, _, _)
Pick(options, chosen, i) ==
    IF i > Len(options) THEN <<>>
    ELSE (IF i \in chosen THEN <<options[i]>> ELSE <<>>) \o Pick(options, chosen, i + 1)

Selections(options) == {Pick(options, chosen, 1) : chosen \in SUBSET (1..Len(options))}

FmtIdle ==
    /\ fb = <<>>
    /\ fu = "B"
    /\ fres = Returned("", <<>>, 0)
    /\ fpc = "idle"

Init ==
    /\ pc = "GetDatabaseRegionList"
    /\ exitCode = NotExited
    /\ trace = <<>>
    /\ stdout = <<>>
    /\ interactiveEnabled \in BOOLEAN
    /\ outputFlag \in BOOLEAN
    /\ flagRegion \in Regions \cup {""}
    /\ defaultRegion \in DefaultRegions
    /\ azChanged \in BOOLEAN
    /\ argsAvailabilityZones \in SeqsUpTo(FlagZones, MaxZones)
    /\ (~azChanged => argsAvailabilityZones = <<>>)
    /\ awsClientRegion = ""
    /\ region = ""
    /\ regionList = {}
    /\ availabilityZones = <<>>
    /\ isAvailabilityZonesSet = FALSE
    /\ selectAvailabilityZones = FALSE
    /\ optionsAvailabilityZones = <<>>
    /\ regionAvailabilityZones = <<>>
    /\ fetchArgs = [region |-> "", zones |-> <<>>]
    /\ azError = [zone |-> "", region |-> ""]
    /\ machineTypes = <<>>
    /\ FmtIdle

inputs == <<interactiveEnabled, outputFlag, flagRegion, defaultRegion, azChanged,
            argsAvailabilityZones>>

\* r.Reporter.Errorf(...) at `line`, then os.Exit(1)
Fail(events, line) ==
    /\ trace' = trace \o events \o <<Event("Errorf", line, FALSE)>>
    /\ pc' = "exited"
    /\ exitCode' = 1

----------------------------------------------------------------------------
(* run: region resolution, lines 109-145 *)

\* lines 109-112: the error is reported; there is no os.Exit in the branch
GetDatabaseRegionList ==
    /\ pc = "GetDatabaseRegionList"
    /\ \E err \in BOOLEAN :
          trace' = trace \o <<Event("GetDatabaseRegionList", 109, err)>>
                         \o (IF err THEN <<Event("Errorf", 111, FALSE)>> ELSE <<>>)
    /\ pc' = "GetAWSClientForUserRegion"
    /\ UNCHANGED <<exitCode, stdout, inputs, awsClientRegion, region, regionList,
                   availabilityZones, isAvailabilityZonesSet, selectAvailabilityZones,
                   optionsAvailabilityZones, regionAvailabilityZones, fetchArgs, azError,
                   machineTypes, fmtVars>>

\* lines 113-114: the client is built here, for the user's region, and never again
GetAWSClientForUserRegion ==
    /\ pc = "GetAWSClientForUserRegion"
    /\ awsClientRegion' = UserRegion
    /\ trace' = Append(trace, Event("GetAWSClientForUserRegion", 113, FALSE))
    /\ pc' = "GetRegion"
    /\ UNCHANGED <<exitCode, stdout, inputs, region, regionList,
                   availabilityZones, isAvailabilityZonesSet, selectAvailabilityZones,
                   optionsAvailabilityZones, regionAvailabilityZones, fetchArgs, azError,
                   machineTypes, fmtVars>>

\* lines 116-120
GetRegion ==
    /\ pc = "GetRegion"
    /\ \E err \in BOOLEAN :
          IF err
          THEN /\ Fail(<<Event("GetRegion", 116, TRUE)>>, 118)
               /\ UNCHANGED region
          ELSE /\ region' = UserRegion
               /\ trace' = Append(trace, Event("GetRegion", 116, FALSE))
               /\ pc' = "GetRegionList"
               /\ UNCHANGED exitCode
    /\ UNCHANGED <<stdout, inputs, awsClientRegion, regionList,
                   availabilityZones, isAvailabilityZonesSet, selectAvailabilityZones,
                   optionsAvailabilityZones, regionAvailabilityZones, fetchArgs, azError,
                   machineTypes, fmtVars>>

\* the check of line 128 left out
RegionMissingNever(r) == FALSE

\* line 128: if region == ""
RegionMissing(r) == r = ""

\* lines 122-131: the region list is fetched, and only then is the region checked
GetRegionList ==
    /\ pc = "GetRegionList"
    /\ \E err \in BOOLEAN, list \in SUBSET Regions :
          IF err
          THEN /\ list = {}
               /\ Fail(<<Event("GetRegionList", 122, TRUE)>>, 125)
               /\ UNCHANGED regionList
          ELSE /\ regionList' = list
               /\ IF RegionMissing(region)
                  THEN Fail(<<Event("GetRegionList", 122, FALSE)>>, 129)
                  ELSE /\ trace' = Append(trace, Event("GetRegionList", 122, FALSE))
                       /\ pc' = IF interactiveEnabled THEN "GetOption" ELSE "ReadFlags"
                       /\ UNCHANGED exitCode
    /\ UNCHANGED <<stdout, inputs, awsClientRegion, region,
                   availabilityZones, isAvailabilityZonesSet, selectAvailabilityZones,
                   optionsAvailabilityZones, regionAvailabilityZones, fetchArgs, azError,
                   machineTypes, fmtVars>>

\* lines 133-145: the prompt offers regionList and requires an answer
PromptRegion ==
    /\ pc = "GetOption"
    /\ \/ /\ region' = ""
          /\ Fail(<<Event("GetOption", 134, TRUE)>>, 142)
       \/ \E answer \in regionList :
             /\ region' = answer
             /\ trace' = Append(trace, Event("GetOption", 134, FALSE))
             /\ pc' = "ReadFlags"
             /\ UNCHANGED exitCode
    /\ UNCHANGED <<stdout, inputs, awsClientRegion, regionList,
                   availabilityZones, isAvailabilityZonesSet, selectAvailabilityZones,
                   optionsAvailabilityZones, regionAvailabilityZones, fetchArgs, azError,
                   machineTypes, fmtVars>>

----------------------------------------------------------------------------
(* run: the requested zones and their validation, lines 147-199 *)

\* lines 147-150
ReadFlags ==
    /\ pc = "ReadFlags"
    /\ isAvailabilityZonesSet' = azChanged
    /\ availabilityZones' = IF azChanged THEN argsAvailabilityZones ELSE <<>>
    /\ pc' = IF interactiveEnabled THEN "GetBool" ELSE "Validate"
    /\ UNCHANGED <<exitCode, trace, stdout, inputs, awsClientRegion, region, regionList,
                   selectAvailabilityZones, optionsAvailabilityZones,
                   regionAvailabilityZones, fetchArgs, azError, machineTypes, fmtVars>>

\* lines 151-161
PromptSelect ==
    /\ pc = "GetBool"
    /\ \/ /\ selectAvailabilityZones' = FALSE
          /\ Fail(<<Event("GetBool", 152, TRUE)>>, 159)
       \/ \E answer \in BOOLEAN :
             /\ selectAvailabilityZones' = answer
             /\ trace' = Append(trace, Event("GetBool", 152, FALSE))
             /\ pc' = IF answer THEN "DescribeOptions" ELSE "Validate"
             /\ UNCHANGED exitCode
    /\ UNCHANGED <<stdout, inputs, awsClientRegion, region, regionList,
                   availabilityZones, isAvailabilityZonesSet, optionsAvailabilityZones,
                   regionAvailabilityZones, fetchArgs, azError, machineTypes, fmtVars>>

\* awsClient.DescribeAvailabilityZones(): the zones of the region the client was built for
DescribeAvailabilityZones == ZonesOf(awsClientRegion)

\* lines 163-168
DescribeOptions ==
    /\ pc = "DescribeOptions"
    /\ \E err \in BOOLEAN :
          IF err
          THEN /\ Fail(<<Event("DescribeAvailabilityZones", 164, TRUE)>>, 166)
               /\ UNCHANGED optionsAvailabilityZones
          ELSE /\ optionsAvailabilityZones' = DescribeAvailabilityZones
               /\ trace' = Append(trace, Event("DescribeAvailabilityZones", 164, FALSE))
               /\ pc' = "GetMultipleOptions"
               /\ UNCHANGED exitCode
    /\ UNCHANGED <<stdout, inputs, awsClientRegion, region, regionList,
                   availabilityZones, isAvailabilityZonesSet, selectAvailabilityZones,
                   regionAvailabilityZones, fetchArgs, azError, machineTypes, fmtVars>>

\* lines 170-182: the answer replaces the list read from the flag
PromptZones ==
    /\ pc = "GetMultipleOptions"
    /\ \/ /\ availabilityZones' = <<>>
          /\ Fail(<<Event("GetMultipleOptions", 170, TRUE)>>, 180)
       \/ \E answer \in Selections(optionsAvailabilityZones) :
             /\ availabilityZones' = answer
             /\ trace' = Append(trace, Event("GetMultipleOptions", 170, FALSE))
             /\ pc' = "Validate"
             /\ UNCHANGED exitCode
    /\ UNCHANGED <<stdout, inputs, awsClientRegion, region, regionList,
                   isAvailabilityZonesSet, selectAvailabilityZones,
                   optionsAvailabilityZones, regionAvailabilityZones, fetchArgs, azError,
                   machineTypes, fmtVars>>

\* helper.Contains(slice, element)
Contains(slice, element) == \E i \in 1..Len(slice) : slice[i] = element

\* the loop of lines 192-198 stopping after its first element
FirstInvalidHeadOnly(zones, authoritative) ==
    IF zones = <<>> \/ Contains(authoritative, zones[1]) THEN 0 ELSE 1

\* lines 192-198: the index of the first zone the loop rejects, 0 when it rejects none
FirstInvalid(zones, authoritative) ==
    IF \A i \in 1..Len(zones) : Contains(authoritative, zones[i]) THEN 0
    ELSE CHOOSE i \in 1..Len(zones) :
            /\ ~Contains(authoritative, zones[i])
            /\ \A j \in 1..(i - 1) : Contains(authoritative, zones[j])

\* lines 186-199
Validate ==
    /\ pc = "Validate"
    /\ IF isAvailabilityZonesSet \/ selectAvailabilityZones
       THEN \E err \in BOOLEAN :
               IF err
               THEN /\ Fail(<<Event("DescribeAvailabilityZones", 187, TRUE)>>, 189)
                    /\ UNCHANGED <<regionAvailabilityZones, azError>>
               ELSE /\ regionAvailabilityZones' = DescribeAvailabilityZones
                    /\ LET bad == FirstInvalid(availabilityZones, DescribeAvailabilityZones)
                       IN  IF bad # 0
                           THEN /\ azError' = [zone |-> availabilityZones[bad],
                                               region |-> awsClientRegion]
                                /\ Fail(<<Event("DescribeAvailabilityZones", 187, FALSE)>>, 194)
                           ELSE /\ trace' = Append(trace,
                                                   Event("DescribeAvailabilityZones", 187, FALSE))
                                /\ pc' = "Fetch"
                                /\ UNCHANGED <<exitCode, azError>>
       ELSE /\ pc' = "Fetch"
            /\ UNCHANGED <<exitCode, trace, regionAvailabilityZones, azError>>
    /\ UNCHANGED <<stdout, inputs, awsClientRegion, region, regionList,
                   availabilityZones, isAvailabilityZonesSet, selectAvailabilityZones,
                   optionsAvailabilityZones, fetchArgs, machineTypes, fmtVars>>

----------------------------------------------------------------------------
(* run: the listing and its output, lines 201-246 *)

\* line 202: the zone filter handed to the listing call
ListingZones == argsAvailabilityZones

\* lines 201-209
Fetch ==
    /\ pc = "Fetch"
    /\ fetchArgs' = [region |-> region, zones |-> ListingZones]
    /\ \/ /\ Fail(<<Event("GetAvailableMachineTypesInRegion", 202, TRUE)>>, 207)
          /\ UNCHANGED machineTypes
       \/ \E items \in SeqsUpTo(Catalog, MaxItems) :
             /\ machineTypes' = items
             /\ trace' = Append(trace, Event("GetAvailableMachineTypesInRegion", 202, FALSE))
             /\ pc' = "Render"
             /\ UNCHANGED exitCode
    /\ UNCHANGED <<stdout, inputs, awsClientRegion, region, regionList,
                   availabilityZones, isAvailabilityZonesSet, selectAvailabilityZones,
                   optionsAvailabilityZones, regionAvailabilityZones, azError, fmtVars>>

\* the emptiness test of line 224 placed before the output flag test of line 211
RenderModeEmptyFirst(hasFlag, items) ==
    IF Len(items) = 0 THEN "warn"
    ELSE IF hasFlag THEN "structured"
    ELSE "table"

\* lines 211 and 224: which of the three output branches run takes
RenderMode(hasFlag, items) ==
    IF hasFlag THEN "structured"
    ELSE IF Len(items) = 0 THEN "warn"
    ELSE "table"

RECURSIVE Ids(_)
Ids(items) == IF items = <<>> THEN <<>> ELSE <<Head(items).id>> \o Ids(Tail(items))

\* lines 211-222
PrintStructured ==
    /\ pc = "Render"
    /\ RenderMode(outputFlag, machineTypes) = "structured"
    /\ \/ /\ Fail(<<Event("Print", 216, TRUE)>>, 218)
          /\ UNCHANGED stdout
       \/ /\ stdout' = Append(stdout, [kind |-> "structured", text |-> Ids(machineTypes)])
          /\ trace' = Append(trace, Event("Print", 216, FALSE))
          /\ pc' = "exited"
          /\ exitCode' = 0
    /\ UNCHANGED <<inputs, awsClientRegion, region, regionList,
                   availabilityZones, isAvailabilityZonesSet, selectAvailabilityZones,
                   optionsAvailabilityZones, regionAvailabilityZones, fetchArgs, azError,
                   machineTypes, fmtVars>>

\* lines 224-227
WarnEmpty ==
    /\ pc = "Render"
    /\ RenderMode(outputFlag, machineTypes) = "warn"
    /\ trace' = Append(trace, Event("Warnf", 225, FALSE))
    /\ pc' = "exited"
    /\ exitCode' = 1
    /\ UNCHANGED <<stdout, inputs, awsClientRegion, region, regionList,
                   availabilityZones, isAvailabilityZonesSet, selectAvailabilityZones,
                   optionsAvailabilityZones, regionAvailabilityZones, fetchArgs, azError,
                   machineTypes, fmtVars>>

\* lines 233-236: the entries the table loop does not skip
Available(items) == SelectSeq(items, LAMBDA m : m.available)

\* lines 237-243: the rows written to the tabwriter, up to the first one whose memory
\* cannot be formatted
RECURSIVE Rows(_)
Rows(items) ==
    IF items = <<>> THEN [lines |-> <<>>, panic |-> ""]
    ELSE LET memory == ByteCountIEC(Head(items).memory, Head(items).unit)
             rest   == Rows(Tail(items))
         IN  IF memory.panic # "" THEN [lines |-> <<>>, panic |-> memory.panic]
             ELSE [lines |-> <<[kind |-> "row", text |-> <<Head(items).id, memory.text>>]>>
                             \o rest.lines,
                   panic |-> rest.panic]

TableHeader == [kind |-> "header", text |-> <<"ID", "CATEGORY", "CPU_CORES", "MEMORY">>]

\* lines 229-246: the tabwriter holds the lines until Flush; a panic ends the process
\* with status 2 before anything is flushed; returning from run ends it with status 0
PrintTable ==
    /\ pc = "Render"
    /\ RenderMode(outputFlag, machineTypes) = "table"
    /\ LET rows == Rows(Available(machineTypes))
       IN  IF rows.panic # ""
           THEN /\ trace' = Append(trace, Event("panic", 241, TRUE))
                /\ exitCode' = 2
                /\ UNCHANGED stdout
           ELSE /\ trace' = Append(trace, Event("Flush", 245, FALSE))
                /\ stdout' = stdout \o <<TableHeader>> \o rows.lines
                /\ exitCode' = 0
    /\ pc' = "exited"
    /\ UNCHANGED <<inputs, awsClientRegion, region, regionList,
                   availabilityZones, isAvailabilityZonesSet, selectAvailabilityZones,
                   optionsAvailabilityZones, regionAvailabilityZones, fetchArgs, azError,
                   machineTypes, fmtVars>>

Next ==
    \/ GetDatabaseRegionList
    \/ GetAWSClientForUserRegion
    \/ GetRegion
    \/ GetRegionList
    \/ PromptRegion
    \/ ReadFlags
    \/ PromptSelect
    \/ DescribeOptions
    \/ PromptZones
    \/ Validate
    \/ Fetch
    \/ PrintStructured
    \/ WarnEmpty
    \/ PrintTable

Spec == Init /\ [][Next]_vars

----------------------------------------------------------------------------
(* ByteCountIEC on its own: every call with b >= 0 and a unit string *)

Fill(v, k) == [i \in 1..k |-> v]

\* the values of b drawn: every magnitude band of a Go int, at its edges and inside
Numbers ==
    {ToLimbs(n) : n \in {0, 1, 9, 10, 500, 999, 1023}}
    \cup {b \in {<<top>> \o Fill(mid, k) \o <<low>> :
                    top \in {1, 2, 7, 8, 500, 1023}, mid \in {0, 1023},
                    k \in 0..(IntBits \div BitLen(Limb - 1) - 1), low \in {0, 1, 256, 512, 768, 1023}} :
             NumBits(b) <= IntBits}

Units == {"B", "KB", "MiB", ""}

RunIdle ==
    /\ pc = "idle"
    /\ exitCode = NotExited
    /\ trace = <<>>
    /\ stdout = <<>>
    /\ interactiveEnabled = FALSE
    /\ outputFlag = FALSE
    /\ flagRegion = ""
    /\ defaultRegion = ""
    /\ azChanged = FALSE
    /\ argsAvailabilityZones = <<>>
    /\ awsClientRegion = ""
    /\ region = ""
    /\ regionList = {}
    /\ availabilityZones = <<>>
    /\ isAvailabilityZonesSet = FALSE
    /\ selectAvailabilityZones = FALSE
    /\ optionsAvailabilityZones = <<>>
    /\ regionAvailabilityZones = <<>>
    /\ fetchArgs = [region |-> "", zones |-> <<>>]
    /\ azError = [zone |-> "", region |-> ""]
    /\ machineTypes = <<>>

FmtInit ==
    /\ RunIdle
    /\ fb \in Numbers
    /\ fu \in Units
    /\ fres = Returned("", <<>>, 0)
    /\ fpc = "call"

\* lines 248-263, one call
FmtCall ==
    /\ fpc = "call"
    /\ fres' = ByteCountIEC(fb, fu)
    /\ fpc' = "returned"
    /\ UNCHANGED <<fb, fu, runVars>>

FmtNext == FmtCall

SpecFmt == FmtInit /\ [][FmtNext]_vars

----------------------------------------------------------------------------
(* Properties *)

Has(op, line, err) == \E i \in 1..Len(trace) : trace[i] = Event(op, line, err)

\* GetAvailableMachineTypesInRegion was called
Listed == \E i \in 1..Len(trace) : trace[i].op = "GetAvailableMachineTypesInRegion"

FetchedOK == Has("GetAvailableMachineTypesInRegion", 202, FALSE)

\* the zone list for the validation of lines 192-198 was returned
ZonesValidated == Has("DescribeAvailabilityZones", 187, FALSE)

RequestedBad ==
    \E i \in 1..Len(availabilityZones) :
        availabilityZones[i] \notin Range(regionAvailabilityZones)

TableWritten == \E i \in 1..Len(stdout) : stdout[i].kind \in {"header", "row"}

Warned == Has("Warnf", 225, FALSE)

\* C1: once the zone set for validation is returned: if a requested zone (the
\* interactive selection, else the flag's list) is not in it, the command has exited
\* non-zero and the listing call is never made; if all are in it, the command is at
\* the listing call or past it.
C1_ZoneValidation ==
    ZonesValidated =>
        IF RequestedBad
        THEN pc = "exited" /\ exitCode # 0 /\ ~Listed
        ELSE pc = "Fetch" \/ Listed

C1_Witness ==
    /\ ZonesValidated
    /\ RequestedBad
    /\ Len(availabilityZones) = 2
    /\ Contains(regionAvailabilityZones, availabilityZones[1])
    /\ azError.zone = availabilityZones[2]
    /\ exitCode = 1

\* C2: the zone set the requested zones are validated against, and the region the
\* validation error names, are those of the effective region, the one handed to the
\* listing call.
C2_ZonesOfEffectiveRegion ==
    ZonesValidated =>
        /\ Range(regionAvailabilityZones) = Range(ZonesOf(region))
        /\ (Listed => Range(regionAvailabilityZones) = Range(ZonesOf(fetchArgs.region)))
        /\ (Has("Errorf", 194, FALSE) => azError.region = region)

FetchErrors ==
    {"GetDatabaseRegionList", "GetRegion", "GetRegionList", "DescribeAvailabilityZones"}

\* C3: an error of the supported-region fetch, the default region lookup, the region
\* list fetch or the zone list fetch ends the command non-zero, and nothing but its
\* report follows it.
C3_FetchErrorTerminates ==
    \A i \in 1..Len(trace) :
        (trace[i].err /\ trace[i].op \in FetchErrors) =>
            /\ pc = "exited"
            /\ exitCode # 0
            /\ \A j \in (i + 1)..Len(trace) : trace[j].op = "Errorf"

BeforeRegionCheck ==
    {"GetDatabaseRegionList", "GetAWSClientForUserRegion", "GetRegion", "GetRegionList"}

\* C4: the listing call is never made with an empty region: an empty region never
\* gets past the check, and the command then exits non-zero without listing.
C4_NoListingOfEmptyRegion ==
    /\ (Listed => fetchArgs.region # "")
    /\ (region = "" => pc \in BeforeRegionCheck \cup {"exited"})
    /\ (region = "" /\ pc = "exited" => exitCode # 0 /\ ~Listed)

C4_Witness ==
    /\ Has("GetRegion", 116, FALSE)
    /\ region = ""
    /\ Has("Errorf", 129, FALSE)
    /\ pc = "exited"
    /\ exitCode = 1

RemoteFetches ==
    {"GetRegionList", "DescribeAvailabilityZones", "GetAvailableMachineTypesInRegion"}

\* C5: on a configuration error the command exits non-zero, and no region-list,
\* zone-list or instance-type fetch is issued after the offending value is known: none
\* after GetRegion returned an empty region, none after the zone list that rejects a
\* requested zone.
C5_NoFetchAfterConfigError ==
    /\ \A i \in 1..Len(trace) :
          (trace[i] = Event("GetRegion", 116, FALSE) /\ UserRegion = "") =>
              \A j \in (i + 1)..Len(trace) : trace[j].op \notin RemoteFetches
    /\ \A i \in 1..Len(trace) :
          (trace[i] = Event("DescribeAvailabilityZones", 187, FALSE) /\ RequestedBad) =>
              \A j \in (i + 1)..Len(trace) : trace[j].op \notin RemoteFetches
    /\ (Has("Errorf", 129, FALSE) \/ Has("Errorf", 194, FALSE) => exitCode # 0)

\* C6: after a successful listing with structured output requested, the command
\* prints the document and exits 0, or exits non-zero when printing fails, and writes
\* neither the table nor the empty-result warning, also for an empty result; a table
\* is written only when structured output is not requested.
C6_StructuredOutput ==
    /\ (FetchedOK /\ outputFlag) => (~TableWritten /\ ~Warned /\ ~Has("Flush", 245, FALSE))
    /\ (FetchedOK /\ outputFlag /\ pc = "exited") =>
          \/ /\ Has("Print", 216, FALSE)
             /\ exitCode = 0
             /\ stdout = <<[kind |-> "structured", text |-> Ids(machineTypes)]>>
          \/ /\ Has("Print", 216, TRUE)
             /\ exitCode # 0
             /\ stdout = <<>>
    /\ (TableWritten => ~outputFlag)

C6_Witness ==
    /\ FetchedOK
    /\ outputFlag
    /\ machineTypes = <<>>
    /\ Has("Print", 216, FALSE)
    /\ exitCode = 0

\* C7: in table mode, when no fetched machine type is available, the command warns
\* that no machine types are supported and exits non-zero.
C7_EmptyFilteredResultWarns ==
    (FetchedOK /\ ~outputFlag /\ pc = "exited" /\ Available(machineTypes) = <<>>) =>
        (Warned /\ exitCode # 0)

\* 1024^k
Pow(k) == <<1>> \o Fill(0, k)

PrefixOf(k) ==
    CASE k = 0 -> "K" [] k = 1 -> "M" [] k = 2 -> "G"
      [] k = 3 -> "T" [] k = 4 -> "P" [] k = 5 -> "E"

\* C8: with unit "B", ByteCountIEC returns "<b> B" for b < 1024; otherwise it ends
\* with divisor 1024^(k+1) and exponent k, where 1024^(k+1) <= b < 1024^(k+2) and
\* k is in 0..5, and the prefix is the k-th of K, M, G, T, P, E; 500 gives "500 B"
\* and 2048 gives "2.0 KiB" with divisor 1024.
C8_ByteCountReference ==
    (fpc = "returned" /\ fu = "B") =>
        /\ fres.panic = ""
        /\ IF NumLt(fb, Pow(1))
           THEN fres.text = FormatD(fb) \o " B"
           ELSE \E k \in 0..5 :
                   /\ NumLe(Pow(k + 1), fb)
                   /\ NumLt(fb, Pow(k + 2))
                   /\ fres.div = Pow(k + 1)
                   /\ fres.exp = k
                   /\ fres.text = FormatF1(fb, Pow(k + 1)) \o " " \o PrefixOf(k) \o "iB"
        /\ (fb = ToLimbs(500) => fres.text = "500 B")
        /\ (fb = ToLimbs(1023) => fres.text = "1023 B")
        /\ (fb = ToLimbs(2048) => fres.text = "2.0 KiB" /\ fres.div = ToLimbs(1024))

C8_Witness ==
    /\ fpc = "returned"
    /\ fu = "B"
    /\ NumBits(fb) = IntBits
    /\ fres.exp = 5
    /\ fres.text = "8.0 EiB"

\* C9: for every b >= 0 and every unit string other than "B", ByteCountIEC returns
\* the unscaled "<b> B" and does not fault.
C9_OtherUnitsUnscaled ==
    (fpc = "returned" /\ fu # "B") =>
        (fres.panic = "" /\ fres.text = FormatD(fb) \o " B")

\* the zone list validated: the interactive selection when zones were selected, else
\* the flag's list when the flag was given, else none
EffectiveZones ==
    IF selectAvailabilityZones THEN availabilityZones
    ELSE IF azChanged THEN argsAvailabilityZones
    ELSE <<>>

\* C10: the zone filter of the listing call is the effective zone list that was
\* validated, and holds no zone that was not validated.
C10_ListingUsesValidatedZones ==
    Listed =>
        /\ fetchArgs.zones = EffectiveZones
        /\ Range(fetchArgs.zones) \subseteq Range(regionAvailabilityZones)

====
